---- MODULE Spec2Model ----
(***************************************************************************)
(* dump_lut.py: dump an ImageJ binary LUT file as comma-separated LUT      *)
(* values.  The script is modelled statement by statement: the argument    *)
(* check, the opening of the file, the first read, the loop body, the read *)
(* at the end of the body, and the exits of the with block.  The standard  *)
(* output is the sequence of strings handed to print / sys.stdout.write.   *)
(***************************************************************************)
EXTENDS Integers, Sequences, FiniteSets, TLC

(* ---------- bounds of the explored inputs ---------- *)

\* short files: every byte sequence over ShortBytes of length 0..ShortLen
ShortLen == 3
\* long files: lengths within Slack of each section size multiple
Slack == 2

ShortBytes == {0, 128, 255}
Steps == {0, 1}

(* ---------- program constants ---------- *)

GreenAt == 256
BlueAt == 512
EndAt == 768
ArgvLen == 2

UsageLine == "Usage: dump_lut.py some_lut.lut\n"
RedHeader == "# RED\n"
GreenHeader == "\n# GREEN\n"
BlueHeader == "\n# BLUE\n"
Separator == ", "

(* ---------- the environment: command line and file system ---------- *)

Prog == "dump_lut.py"
LutPath == "some_lut.lut"
AbsentPath == "absent.lut"
LockedPath == "locked.lut"
ExtraArg == "extra"

Paths == {LutPath, AbsentPath, LockedPath}

\* sys.argv: the script name followed by zero, one or two arguments
ArgVectors ==
    {<<Prog>>} \cup {<<Prog, p>> : p \in Paths}
               \cup {<<Prog, p, ExtraArg>> : p \in Paths}

\* open(path, "rb") succeeds only for a file that exists and is readable
CanOpen(path) == path = LutPath

ShortFiles == UNION {[1..n -> ShortBytes] : n \in 0..ShortLen}

LongLens ==
    UNION {{m - Slack + k : k \in 0..(2 * Slack)} : m \in {GreenAt, BlueAt, EndAt}}

LongFile(n, step) == [i \in 1..n |-> (step * (i - 1)) % 256]

LongFiles == {LongFile(n, s) : n \in LongLens, s \in Steps}

Files == ShortFiles \cup LongFiles

(* ---------- pure functions of the script ---------- *)

Digit(d) ==
    CASE d = 0 -> "0" [] d = 1 -> "1" [] d = 2 -> "2" [] d = 3 -> "3"
      [] d = 4 -> "4" [] d = 5 -> "5" [] d = 6 -> "6" [] d = 7 -> "7"
      [] d = 8 -> "8" [] d = 9 -> "9"

\* str(n) for a non-negative integer: decimal digits, no leading zeros
RECURSIVE Str(_)
Str(n) == IF n < 10 THEN Digit(n) ELSE Str(n \div 10) \o Digit(n % 10)

\* a plausible slip: the byte decoded as a signed char's magnitude (7 bits)
Unpack_7bit(b) == b[1] % 128

\* struct.unpack('<B', byte)[0]: the one byte as an unsigned integer
Unpack(b) == b[1]

\* f.read(1) at offset p of the content c: one byte, or b"" at end of file
Read(c, p) == IF p < Len(c) THEN <<c[p + 1]>> ELSE <<>>

\* a plausible slip: the usage check fires only when the argument is missing
UsageNeeded_missingOnly(av) == Len(av) < ArgvLen

\* len(sys.argv) != 2
UsageNeeded(av) == Len(av) /= ArgvLen

\* a plausible slip: no pass branch at 768
AfterValue_noPass(n) ==
    IF n = GreenAt THEN <<GreenHeader>>
    ELSE IF n = BlueAt THEN <<BlueHeader>>
    ELSE <<Separator>>

\* a plausible slip: the header tests use >= instead of ==
AfterValue_atLeast(n) ==
    IF n >= EndAt THEN <<>>
    ELSE IF n >= BlueAt THEN <<BlueHeader>>
    ELSE IF n >= GreenAt THEN <<GreenHeader>>
    ELSE <<Separator>>

\* a plausible slip: the pass branch one byte early
AfterValue_passEarly(n) ==
    IF n = GreenAt THEN <<GreenHeader>>
    ELSE IF n = BlueAt THEN <<BlueHeader>>
    ELSE IF n = EndAt - 1 THEN <<>>
    ELSE <<Separator>>

\* a plausible slip: the branches for 256 and 512 swapped
AfterValue_swapped(n) ==
    IF n = GreenAt THEN <<BlueHeader>>
    ELSE IF n = BlueAt THEN <<GreenHeader>>
    ELSE IF n = EndAt THEN <<>>
    ELSE <<Separator>>

\* the if/elif chain on nbytes: what is written after the value
AfterValue(n) ==
    IF n = GreenAt THEN <<GreenHeader>>
    ELSE IF n = BlueAt THEN <<BlueHeader>>
    ELSE IF n = EndAt THEN <<>>
    ELSE <<Separator>>

(* ---------- state ---------- *)

VARIABLES
    argv,     \* sys.argv
    disk,     \* the content of the file at LutPath
    pc,       \* the statement the script is at
    opens,    \* the paths open() has been called with
    f,        \* the file object: "unbound", "open" or "closed"
    pos,      \* the read offset of f
    byte,     \* <<>> is b"", <<v>> is the one-byte string of value v
    nbytes,   \* the running byte count
    stdout,   \* the strings written to standard output, in order
    exc       \* the uncaught exception, "none" while there is none

vars == <<argv, disk, pc, opens, f, pos, byte, nbytes, stdout, exc>>

\* nbytes and byte are unbound names until lines 14-15 assign them; they
\* are never read before that, and carry 0 and b"" here until then.
Init ==
    /\ argv \in ArgVectors
    /\ disk \in Files
    /\ pc = "argcheck"
    /\ opens = <<>>
    /\ f = "unbound"
    /\ pos = 0
    /\ byte = <<>>
    /\ nbytes = 0
    /\ stdout = <<>>
    /\ exc = "none"

\* lines 9-10: print the usage message, and carry on
ArgCheck ==
    /\ pc = "argcheck"
    /\ stdout' = IF UsageNeeded(argv) THEN Append(stdout, UsageLine) ELSE stdout
    /\ pc' = "open"
    /\ UNCHANGED <<argv, disk, opens, f, pos, byte, nbytes, exc>>

\* line 12, sys.argv[1] with no argument: IndexError before open is called
IndexFail ==
    /\ pc = "open"
    /\ Len(argv) < 2
    /\ exc' = "IndexError"
    /\ pc' = "exit"
    /\ UNCHANGED <<argv, disk, opens, f, pos, byte, nbytes, stdout>>

\* a plausible slip: the header written before the file is opened
OpenFail_headerFirst ==
    /\ pc = "open"
    /\ Len(argv) >= 2
    /\ ~CanOpen(argv[2])
    /\ stdout' = Append(stdout, RedHeader)
    /\ opens' = Append(opens, argv[2])
    /\ exc' = "IOError"
    /\ pc' = "exit"
    /\ UNCHANGED <<argv, disk, f, pos, byte, nbytes>>

\* line 12, open() raising IOError: the with body is never entered
OpenFail ==
    /\ pc = "open"
    /\ Len(argv) >= 2
    /\ ~CanOpen(argv[2])
    /\ opens' = Append(opens, argv[2])
    /\ exc' = "IOError"
    /\ pc' = "exit"
    /\ UNCHANGED <<argv, disk, f, pos, byte, nbytes, stdout>>

\* lines 12-13: open() succeeding, then the RED header
OpenOk ==
    /\ pc = "open"
    /\ Len(argv) >= 2
    /\ CanOpen(argv[2])
    /\ opens' = Append(opens, argv[2])
    /\ f' = "open"
    /\ pos' = 0
    /\ stdout' = Append(stdout, RedHeader)
    /\ pc' = "read0"
    /\ UNCHANGED <<argv, disk, byte, nbytes, exc>>

\* lines 14-15: the first read, then nbytes = 0
FirstRead ==
    /\ pc = "read0"
    /\ byte' = Read(disk, pos)
    /\ pos' = pos + Len(byte')
    /\ nbytes' = 0
    /\ pc' = "loop"
    /\ UNCHANGED <<argv, disk, opens, f, stdout, exc>>

\* lines 16-27: the loop test passing, the value, the count, the branch
Body ==
    /\ pc = "loop"
    /\ byte /= <<>>
    /\ nbytes' = nbytes + 1
    /\ stdout' = stdout \o <<Str(Unpack(byte))>> \o AfterValue(nbytes')
    /\ pc' = "read"
    /\ UNCHANGED <<argv, disk, opens, f, pos, byte, exc>>

\* line 28: the read at the end of the body
NextRead ==
    /\ pc = "read"
    /\ byte' = Read(disk, pos)
    /\ pos' = pos + Len(byte')
    /\ pc' = "loop"
    /\ UNCHANGED <<argv, disk, opens, f, nbytes, stdout, exc>>

\* a plausible slip: no with block, so the exception skips the close
ReadError_noClose ==
    /\ pc \in {"read0", "read"}
    /\ exc' = "IOError"
    /\ pc' = "exit"
    /\ UNCHANGED <<argv, disk, opens, f, pos, byte, nbytes, stdout>>

\* lines 14 and 28, f.read(1) raising IOError: the with block closes f on
\* the way out and the exception ends the script
ReadError ==
    /\ pc \in {"read0", "read"}
    /\ exc' = "IOError"
    /\ f' = "closed"
    /\ pc' = "exit"
    /\ UNCHANGED <<argv, disk, opens, pos, byte, nbytes, stdout>>

\* a plausible slip: a closing line break written after the loop
LoopExit_newline ==
    /\ pc = "loop"
    /\ byte = <<>>
    /\ stdout' = Append(stdout, "\n")
    /\ f' = "closed"
    /\ pc' = "exit"
    /\ UNCHANGED <<argv, disk, opens, pos, byte, nbytes, exc>>

\* line 16 failing: the loop ends, the with block closes f, the script ends
LoopExit ==
    /\ pc = "loop"
    /\ byte = <<>>
    /\ f' = "closed"
    /\ pc' = "exit"
    /\ UNCHANGED <<argv, disk, opens, pos, byte, nbytes, stdout, exc>>

Next ==
    \/ ArgCheck
    \/ IndexFail
    \/ OpenFail
    \/ OpenOk
    \/ FirstRead
    \/ Body
    \/ NextRead
    \/ ReadError
    \/ LoopExit

Spec == Init /\ [][Next]_vars

\* the exit status of the interpreter: 1 after an uncaught exception
ExitStatus == IF exc = "none" THEN 0 ELSE 1

(* ---------- reading the output ---------- *)

Headers == {RedHeader, GreenHeader, BlueHeader}

IsHeader(t) == t \in Headers

\* a written string that is neither a header, a separator nor the usage line
IsValue(t) == t \notin (Headers \cup {Separator, UsageLine})

\* the report: what the with block wrote, the usage line set aside
Report ==
    IF stdout /= <<>> /\ stdout[1] = UsageLine THEN Tail(stdout) ELSE stdout

ValuesOf(s) == SelectSeq(s, IsValue)

HeadersOf(s) == SelectSeq(s, IsHeader)

NumValues(s) == Len(ValuesOf(s))

\* the position of the first occurrence of the string t in s
IndexOf(s, t) == CHOOSE i \in DOMAIN s : s[i] = t /\ \A j \in 1..(i - 1) : s[j] /= t

\* the script ran to the end of the with block without an exception
Finished == pc = "exit" /\ exc = "none" /\ f = "closed"

\* the script ended after the file had been opened (normally or on a read error)
Ended == pc = "exit" /\ f = "closed"

(* ---------- C1 ---------- *)

\* C1 (as claimed): whatever the length of the input, once the dump has
\* run to its end no ", " follows the final value, and nowhere in the
\* output does a ", " stand immediately before a header.
C1_NoTrailingSeparator ==
    /\ Finished /\ NumValues(Report) > 0 => Report[Len(Report)] /= Separator
    /\ Ended =>
         LET r == Report
         IN  \A i \in 1..(Len(r) - 1) : IsHeader(r[i + 1]) => r[i] /= Separator

(* ---------- C2 ---------- *)

\* C2: for an input of exactly 768 bytes the finished report has exactly
\* the headers RED, GREEN, BLUE in this order, RED is the first string,
\* 256 values lie between RED and GREEN, between GREEN and BLUE and after
\* BLUE, and GREEN and BLUE each stand directly after a value (the 256th
\* and the 512th).
C2_ThreeSections ==
    Finished /\ Len(disk) = EndAt =>
        LET r == Report
            g == IndexOf(r, GreenHeader)
            b == IndexOf(r, BlueHeader)
        IN  /\ HeadersOf(r) = <<RedHeader, GreenHeader, BlueHeader>>
            /\ r[1] = RedHeader
            /\ NumValues(SubSeq(r, 2, g - 1)) = 256
            /\ IsValue(r[g - 1])
            /\ NumValues(SubSeq(r, g + 1, b - 1)) = 256
            /\ IsValue(r[b - 1])
            /\ NumValues(SubSeq(r, b + 1, Len(r))) = 256
            /\ IsValue(r[g + 1]) /\ IsValue(r[b + 1])

C2_Witness ==
    /\ Finished /\ Len(disk) = EndAt /\ argv = <<Prog, LutPath>>
    /\ HeadersOf(stdout) = <<RedHeader, GreenHeader, BlueHeader>>

(* ---------- C3 ---------- *)

\* the headers an input of n bytes is to produce
ExpectedHeaders(n) ==
    <<RedHeader>> \o (IF n >= 256 THEN <<GreenHeader>> ELSE <<>>)
                  \o (IF n >= 512 THEN <<BlueHeader>> ELSE <<>>)

\* C3: when the dump ends after n bytes (n is the file length when it ran
\* to the end), the headers written are RED, then GREEN iff n >= 256, then
\* BLUE iff n >= 512, each once and nothing more, however long the file;
\* RED is written before any value, GREEN directly after the 256th value
\* and BLUE directly after the 512th, also when that value is the last.
C3_HeadersByCount ==
    /\ Finished => nbytes = Len(disk)
    /\ Ended =>
        LET r == Report
        IN  /\ HeadersOf(r) = ExpectedHeaders(nbytes)
            /\ r[1] = RedHeader
            /\ nbytes >= 256 =>
                 LET g == IndexOf(r, GreenHeader)
                 IN  IsValue(r[g - 1]) /\ NumValues(SubSeq(r, 1, g)) = 256
            /\ nbytes >= 512 =>
                 LET b == IndexOf(r, BlueHeader)
                 IN  IsValue(r[b - 1]) /\ NumValues(SubSeq(r, 1, b)) = 512

C3_Witness ==
    /\ Finished /\ Len(disk) = GreenAt
    /\ stdout[Len(stdout)] = GreenHeader
    /\ NumValues(stdout) = 256

(* ---------- C4 ---------- *)

\* C4 (as claimed): in the output of a dump that has ended, two values
\* with no header between them and no value between them have exactly one
\* ", " between them: no value directly follows a value, and no ", "
\* directly follows a ", ".
C4_OneSeparator ==
    Ended =>
        LET r == Report
        IN  \A i \in 1..(Len(r) - 1) :
                /\ ~(IsValue(r[i]) /\ IsValue(r[i + 1]))
                /\ ~(r[i] = Separator /\ r[i + 1] = Separator)

\* C4 (amended): the same, except that the 769th value directly follows
\* the 768th value; every other pair of consecutive values of a section
\* has exactly one ", " between them, the values after the 769th included.
C4_OneSeparatorExcept768 ==
    Ended =>
        LET r == Report
        IN  \A i \in 1..(Len(r) - 1) :
                /\ IsValue(r[i]) /\ IsValue(r[i + 1])
                     => NumValues(SubSeq(r, 1, i)) = EndAt
                /\ ~(r[i] = Separator /\ r[i + 1] = Separator)
                /\ r[i] = Separator => IsValue(r[i + 1])

C4_Witness ==
    /\ Finished /\ Len(disk) > EndAt + 1
    /\ IsValue(stdout[Len(stdout) - 4])
    /\ IsValue(stdout[Len(stdout) - 3])
    /\ stdout[Len(stdout) - 2] = Separator
    /\ IsValue(stdout[Len(stdout) - 1])

(* ---------- C5 ---------- *)

\* C5: when the dump ends after nbytes bytes, the values written are the
\* decimal forms of the first nbytes bytes of the file, each once and in
\* file order, every one of them in 0..255; a dump that ran to the end
\* has read the whole file, so it wrote as many values as the file has
\* bytes; and at every moment each byte read so far was read once: the
\* offset is the count of bytes written plus the one byte in hand.
C5_ValuesAreTheBytes ==
    /\ f = "open" /\ pc \in {"loop", "read"} => pos = nbytes + (IF pc = "loop" THEN Len(byte) ELSE 0)
    /\ Ended =>
         /\ ValuesOf(Report) = [i \in 1..nbytes |-> Str(disk[i])]
         /\ \A i \in 1..nbytes : disk[i] \in 0..255
    /\ Finished =>
         /\ nbytes = Len(disk) /\ pos = Len(disk) /\ byte = <<>>
         /\ NumValues(Report) = Len(disk)

C5_Witness ==
    /\ Finished /\ disk = <<0, 128, 255>>
    /\ ValuesOf(stdout) = <<"0", "128", "255">>

(* ---------- C6 ---------- *)

\* C6: for an empty file the finished report is the one string "# RED\n".
C6_EmptyFile ==
    Finished /\ Len(disk) = 0 => Report = <<RedHeader>>

C6_Witness ==
    Finished /\ disk = <<>> /\ stdout = <<RedHeader>>

(* ---------- C7 ---------- *)

\* C7 (as claimed): started with an argument count other than one, the
\* script prints the usage message first, does not stop there, and by the
\* time it ends it has called open().
C7_UsageThenOpen ==
    Len(argv) /= 2 =>
        /\ pc /= "argcheck" => stdout /= <<>> /\ stdout[1] = UsageLine
        /\ pc = "exit" => opens /= <<>>

\* C7 (amended): started with an argument count other than one, the
\* script prints the usage message first and does not stop there; with
\* two or more arguments it goes on to call open() on the first one, and
\* with no argument it ends with an IndexError and a non-zero exit status
\* without having called open() or written anything else.
C7_UsageThenOpenOrIndexError ==
    Len(argv) /= 2 =>
        /\ pc /= "argcheck" => stdout /= <<>> /\ stdout[1] = UsageLine
        /\ pc = "exit" /\ Len(argv) > 2 => opens = <<argv[2]>>
        /\ pc = "exit" /\ Len(argv) < 2 =>
             /\ opens = <<>>
             /\ exc = "IndexError"
             /\ ExitStatus /= 0
             /\ stdout = <<UsageLine>>

C7_Witness ==
    /\ Len(argv) = 3 /\ Finished
    /\ stdout[1] = UsageLine /\ opens = <<LutPath>>
    /\ NumValues(stdout) = Len(disk) /\ Len(disk) > 0

(* ---------- C8 ---------- *)

\* C8: when the path cannot be opened the script ends with an IOError and
\* a non-zero exit status and the report is empty; at every moment the
\* RED header is on the output only if open() has returned a file.
C8_OpenFailureWritesNothing ==
    /\ pc = "exit" /\ Len(argv) >= 2 /\ ~CanOpen(argv[2]) =>
         /\ exc = "IOError"
         /\ ExitStatus /= 0
         /\ Report = <<>>
         /\ f = "unbound"
    /\ (\E i \in DOMAIN stdout : stdout[i] = RedHeader) => f /= "unbound"
    /\ Finished => ExitStatus = 0

C8_Witness ==
    /\ pc = "exit" /\ argv = <<Prog, AbsentPath>>
    /\ opens = <<AbsentPath>> /\ exc = "IOError" /\ stdout = <<>>

(* ---------- C9 ---------- *)

\* C9: once open() has returned the file, the script never ends with the
\* file still open; the step on which a read raises ends the script at
\* once, closes the file and writes nothing; and no step ever takes back
\* output: the output after a step starts with the output before it.
C9_ClosedOnEveryExit ==
    /\ [](pc = "exit" => f /= "open")
    /\ [](pc = "exit" /\ opens /= <<>> /\ CanOpen(opens[1]) => f = "closed")
    /\ [][f = "open" /\ exc' /= "none"
            => pc' = "exit" /\ f' = "closed" /\ stdout' = stdout
               /\ nbytes' = nbytes]_vars
    /\ [][/\ Len(stdout') >= Len(stdout)
          /\ SubSeq(stdout', 1, Len(stdout)) = stdout]_vars

C9_Witness ==
    /\ pc = "exit" /\ exc = "IOError" /\ f = "closed"
    /\ nbytes = GreenAt + 1 /\ nbytes < Len(disk)
    /\ stdout[Len(stdout)] = Separator

(* ---------- C10 ---------- *)

\* C10: nothing is written after the 768th value until the 769th value:
\* while the count is 768 the output ends with the 768th value, so the
\* finished output of a 768-byte file ends with it, and once the count is
\* 769 the 769th value stands directly after the 768th.
C10_NoOpAt768 ==
    /\ nbytes = EndAt =>
         /\ stdout[Len(stdout)] = Str(disk[EndAt])
         /\ NumValues(SubSeq(stdout, Len(stdout) - 2, Len(stdout))) = 2
    /\ nbytes = EndAt + 1 =>
         /\ stdout[Len(stdout) - 2] = Str(disk[EndAt])
         /\ stdout[Len(stdout) - 1] = Str(disk[EndAt + 1])
    /\ Finished /\ Len(disk) = EndAt =>
         IsValue(stdout[Len(stdout)]) /\ NumValues(stdout) = EndAt

C10_Witness ==
    /\ Finished /\ Len(disk) = EndAt + 1
    /\ stdout[Len(stdout) - 2] = "255" /\ stdout[Len(stdout) - 1] = "0"
====
